---- MODULE Spec2Model ----
(***************************************************************************)
(* Conway's Game of Life engine (GameEngine.ts) with its interval timer,   *)
(* and the callers that drive it: the handlers of ControlPanel.tsx and    *)
(* the mouse handlers of the GameGrid canvas.                              *)
(*                                                                         *)
(* A Map<string, Cell> is a function whose domain is the set of its keys.  *)
(* A key `${x},${y}` is the pair <<x, y>>.  The JavaScript event loop is   *)
(* the set `timers` of the intervals that are scheduled; time advances in  *)
(* steps of TimeStep milliseconds.                                         *)
(***************************************************************************)
EXTENDS Integers, FiniteSets, Sequences, TLC

VARIABLES
    grid,        \* GameEngine.grid : key -> Cell, live cells only
    nextGrid,    \* GameEngine.nextGrid : scratch map of nextGeneration
    generation,  \* GameEngine.generation
    isRunning,   \* GameEngine.isRunning
    intervalId,  \* GameEngine.intervalId, NoTimer for null
    speed,       \* GameEngine.speed, ms between generations
    timers,      \* intervals scheduled in the event loop (setInterval)
    snap,        \* <<the GameState a caller holds from getState()>>, or NoSnap
    aliased,     \* keys whose Cell object in snap.grid is the engine's own
    lastOp,      \* history: the operation that made the last step
    invoked,     \* history: callback run by the last timer step, or NoCallback
    registered,  \* history: callback the caller handed to the start() in force
    elapsed,     \* history: ms since the last start/setSpeed call or timer step;
                 \* 0 after a stop that found nothing scheduled
    since,       \* history: key -> steps survived since the cell was inserted or born
    panel,       \* ControlPanel's React state: isRunning, speed, generation
    view,        \* GameGrid's React state: isPanning, isDragging, selectedCells,
                 \* lastToggledCell
    drag         \* history: where the pointer is, and how often toggleCell was
                 \* called per cell since the last left-button mouse-down

vars == <<grid, nextGrid, generation, isRunning, intervalId, speed, timers,
          snap, aliased, lastOp, invoked, registered, elapsed, since,
          panel, view, drag>>

uiVars == <<panel, view, drag>>

engineVars == <<grid, nextGrid, generation, isRunning, intervalId, speed, timers>>

----------------------------------------------------------------------------
(* Bounds of the model *)

MaxX == 2
MaxY == 1
MaxGen == 2
PatternGens == 8
GunGens == 60

(* Program constants *)

DefaultSpeed == 100

----------------------------------------------------------------------------
(* Values *)

NoTimer == 0
NoCallback == "none"
NoSnap == << >>
Undefined == << >>
Callbacks == {"cb1", "cb2"}

TimeStep == DefaultSpeed \div 2
Speeds == {TimeStep, DefaultSpeed}

Window == (0..MaxX) \X (0..MaxY)
SmallWindow == {<<0, 0>>, <<1, 0>>, <<0, 1>>}
SnapWindow == {<<0, 0>>, <<1, 0>>}

GLIDER == << <<0, 0>>, <<1, 1>>, <<2, -1>>, <<2, 0>>, <<2, 1>> >>
BLINKER == << <<0, 0>>, <<1, 0>>, <<2, 0>> >>
PULSAR ==
    << <<2, 0>>, <<3, 0>>, <<4, 0>>, <<8, 0>>, <<9, 0>>, <<10, 0>>,
       <<0, 2>>, <<5, 2>>, <<7, 2>>, <<12, 2>>,
       <<0, 3>>, <<5, 3>>, <<7, 3>>, <<12, 3>>,
       <<0, 4>>, <<5, 4>>, <<7, 4>>, <<12, 4>>,
       <<2, 5>>, <<3, 5>>, <<4, 5>>, <<8, 5>>, <<9, 5>>, <<10, 5>>,
       <<2, 7>>, <<3, 7>>, <<4, 7>>, <<8, 7>>, <<9, 7>>, <<10, 7>>,
       <<0, 8>>, <<5, 8>>, <<7, 8>>, <<12, 8>>,
       <<0, 9>>, <<5, 9>>, <<7, 9>>, <<12, 9>>,
       <<0, 10>>, <<5, 10>>, <<7, 10>>, <<12, 10>>,
       <<2, 12>>, <<3, 12>>, <<4, 12>>, <<8, 12>>, <<9, 12>>, <<10, 12>> >>

GOSPER_GLIDER_GUN ==
    <<
       <<24, 0>>,
       <<22, 1>>, <<24, 1>>,
       <<12, 2>>, <<13, 2>>, <<20, 2>>, <<21, 2>>, <<34, 2>>, <<35, 2>>,
       <<11, 3>>, <<15, 3>>, <<20, 3>>, <<21, 3>>, <<34, 3>>, <<35, 3>>,
       <<0, 4>>, <<1, 4>>, <<10, 4>>, <<16, 4>>, <<20, 4>>, <<21, 4>>,
       <<0, 5>>, <<1, 5>>, <<10, 5>>, <<14, 5>>, <<16, 5>>, <<17, 5>>, <<22, 5>>, <<24, 5>>,
       <<10, 6>>, <<16, 6>>, <<24, 6>>,
       <<11, 7>>, <<15, 7>>,
       <<12, 8>>, <<13, 8>> >>

(* anchors the patterns are stamped at *)
PatternAnchors == {-1, 0, 1}

EmptyMap == [k \in {} |-> 0]

NewCell(a) == [alive |-> TRUE, age |-> a]

Key(x, y) == <<x, y>>
KeyX(key) == key[1]
KeyY(key) == key[2]

MapSet(m, key, v) == [k \in DOMAIN m \cup {key} |-> IF k = key THEN v ELSE m[k]]
MapDelete(m, key) == [k \in DOMAIN m \ {key} |-> m[k]]
MapHas(m, key) == key \in DOMAIN m

Eng == [grid |-> grid, nextGrid |-> nextGrid, generation |-> generation,
        isRunning |-> isRunning, intervalId |-> intervalId, speed |-> speed,
        timers |-> timers, aliased |-> aliased]

Becomes(e) ==
    /\ grid' = e.grid
    /\ nextGrid' = e.nextGrid
    /\ generation' = e.generation
    /\ isRunning' = e.isRunning
    /\ intervalId' = e.intervalId
    /\ speed' = e.speed
    /\ timers' = e.timers
    /\ aliased' = e.aliased

----------------------------------------------------------------------------
(* The event loop's interval timers *)

FreshTimerId(ts) == CHOOSE i \in 1..(Cardinality(ts) + 1) : \A t \in ts : t.id # i

setInterval(ts, id, cb, period) ==
    ts \cup {[id |-> id, period |-> period, due |-> period, cb |-> cb]}

clearInterval(ts, id) == {t \in ts : t.id # id}

----------------------------------------------------------------------------
(* GameEngine methods, as functions of the engine state e *)

(* stop that only lowers the flag and forgets the interval *)
stopLeavesInterval(e) == [e EXCEPT !.isRunning = FALSE]

stop(e) ==
    [e EXCEPT !.timers = IF e.intervalId # NoTimer
                         THEN clearInterval(e.timers, e.intervalId) ELSE @,
              !.intervalId = NoTimer,
              !.isRunning = FALSE]

(* reset that empties the board and leaves the interval running *)
resetWithoutStop(e) ==
    [e EXCEPT !.grid = EmptyMap, !.nextGrid = EmptyMap, !.generation = 0, !.aliased = {}]

reset(e) ==
    stop([e EXCEPT !.grid = EmptyMap, !.nextGrid = EmptyMap,
                   !.generation = 0, !.aliased = {}])

(* start that sets the flag and schedules nothing *)
startFlagOnly(e, callback) ==
    IF e.isRunning THEN e
    ELSE [e EXCEPT !.isRunning = TRUE]

(* start that, when already running, swaps in the new callback *)
startReplacesCallback(e, callback) ==
    IF e.isRunning THEN [e EXCEPT !.timers = {[t EXCEPT !.cb = callback] : t \in @}]
    ELSE LET id == FreshTimerId(e.timers) IN
         [e EXCEPT !.isRunning = TRUE,
                   !.intervalId = id,
                   !.timers = setInterval(e.timers, id, callback, e.speed)]

(* start without the isRunning guard *)
startUnguarded(e, callback) ==
    LET id == FreshTimerId(e.timers) IN
    [e EXCEPT !.isRunning = TRUE,
              !.intervalId = id,
              !.timers = setInterval(e.timers, id, callback, e.speed)]

start(e, callback) ==
    IF e.isRunning THEN e
    ELSE LET id == FreshTimerId(e.timers) IN
         [e EXCEPT !.isRunning = TRUE,
                   !.intervalId = id,
                   !.timers = setInterval(e.timers, id, callback, e.speed)]

(* setSpeed that stops a running engine and forgets to start it again *)
setSpeedStopsOnly(e, s) ==
    IF e.isRunning THEN stop([e EXCEPT !.speed = s]) ELSE [e EXCEPT !.speed = s]

(* setSpeed that restarts the interval whether or not the engine was running *)
setSpeedAlwaysStarts(e, s) == start(stop([e EXCEPT !.speed = s]), NoCallback)

(* setSpeed that records the period and lets the old interval run on *)
setSpeedNoRestart(e, s) == [e EXCEPT !.speed = s]

setSpeed(e, s) ==
    LET e1 == [e EXCEPT !.speed = s] IN
    IF e1.isRunning THEN start(stop(e1), NoCallback) ELSE e1

(* setCell that leaves a cell that is already alive as it is *)
setCellKeepsAge(e, x, y, alive) ==
    LET key == Key(x, y) IN
    IF alive
    THEN IF MapHas(e.grid, key) THEN e
         ELSE [e EXCEPT !.grid = MapSet(@, key, NewCell(0)), !.aliased = @ \ {key}]
    ELSE [e EXCEPT !.grid = MapDelete(@, key), !.aliased = @ \ {key}]

(* setCell that keeps a dead cell as an entry *)
setCellStoresDead(e, x, y, alive) ==
    LET key == Key(x, y) IN
    [e EXCEPT !.grid = MapSet(@, key, [alive |-> alive, age |-> 0]), !.aliased = @ \ {key}]

setCell(e, x, y, alive) ==
    LET key == Key(x, y) IN
    IF alive
    THEN [e EXCEPT !.grid = MapSet(@, key, NewCell(0)), !.aliased = @ \ {key}]
    ELSE [e EXCEPT !.grid = MapDelete(@, key), !.aliased = @ \ {key}]

(* toggleCell that only ever switches a cell on *)
toggleCellOnlySets(e, x, y) ==
    LET key == Key(x, y) IN
    [e EXCEPT !.grid = MapSet(@, key, NewCell(0)), !.aliased = @ \ {key}]

toggleCell(e, x, y) ==
    LET key == Key(x, y) IN
    IF MapHas(e.grid, key)
    THEN [e EXCEPT !.grid = MapDelete(@, key), !.aliased = @ \ {key}]
    ELSE [e EXCEPT !.grid = MapSet(@, key, NewCell(0)), !.aliased = @ \ {key}]

(* <<the cell>>, or Undefined *)
getCell(e, x, y) ==
    IF MapHas(e.grid, Key(x, y)) THEN <<e.grid[Key(x, y)]>> ELSE Undefined

Neighbors(x, y) ==
    {Key(nx, ny) : nx \in (x - 1)..(x + 1), ny \in (y - 1)..(y + 1)} \ {Key(x, y)}

(* neighbour count that forgets to skip the cell itself *)
countLiveNeighborsWithSelf(g, x, y) ==
    Cardinality({key \in Neighbors(x, y) \cup {Key(x, y)} : MapHas(g, key) /\ g[key].alive})

countLiveNeighbors(g, x, y) ==
    Cardinality({key \in Neighbors(x, y) : MapHas(g, key) /\ g[key].alive})

(* candidates whose offset loops start at 0 instead of -1 *)
cellsToCheckFromZero(g) ==
    DOMAIN g \cup UNION {{Key(KeyX(key) + dx, KeyY(key) + dy) : dx \in {0, 1}, dy \in {0, 1}}
                            : key \in DOMAIN g}

(* candidates without the neighbours of the live cells *)
cellsToCheckLiveOnly(g) ==
    DOMAIN g

cellsToCheck(g) ==
    DOMAIN g \cup UNION {Neighbors(KeyX(key), KeyY(key)) : key \in DOMAIN g}

(* survival on three neighbours only *)
SurvivesOnThreeOnly(g, key) ==
    /\ MapHas(g, key) /\ g[key].alive
    /\ countLiveNeighbors(g, KeyX(key), KeyY(key)) = 3

Survives(g, key) ==
    /\ MapHas(g, key) /\ g[key].alive
    /\ countLiveNeighbors(g, KeyX(key), KeyY(key)) \in {2, 3}

(* birth on two neighbours as well *)
BornOnTwoOrThree(g, key) ==
    /\ ~(MapHas(g, key) /\ g[key].alive)
    /\ countLiveNeighbors(g, KeyX(key), KeyY(key)) \in {2, 3}

Born(g, key) ==
    /\ ~(MapHas(g, key) /\ g[key].alive)
    /\ countLiveNeighbors(g, KeyX(key), KeyY(key)) = 3

(* rule application without births *)
buildNextGridSurvivorsOnly(g) ==
    [key \in {k \in cellsToCheck(g) : Survives(g, k)} |-> NewCell(g[key].age + 1)]

(* rule application that gives every survivor age 0 again *)
buildNextGridNoAging(g) ==
    [key \in {k \in cellsToCheck(g) : Survives(g, k) \/ Born(g, k)} |-> NewCell(0)]

buildNextGrid(g) ==
    [key \in {k \in cellsToCheck(g) : Survives(g, k) \/ Born(g, k)} |->
        IF Survives(g, key) THEN NewCell(g[key].age + 1) ELSE NewCell(0)]

(* nextGeneration that forgets this.nextGrid.clear() *)
nextGenerationOnStaleNextGrid(e) ==
    LET fresh == buildNextGrid(e.grid)
        built == [key \in DOMAIN e.nextGrid \cup DOMAIN fresh |->
                    IF key \in DOMAIN fresh THEN fresh[key] ELSE e.nextGrid[key]] IN
    [e EXCEPT !.nextGrid = built,
              !.grid = built,
              !.generation = @ + 1,
              !.aliased = {}]

nextGeneration(e) ==
    LET built == buildNextGrid(e.grid) IN
    [e EXCEPT !.nextGrid = built,
              !.grid = built,
              !.generation = @ + 1,
              !.aliased = {}]

(* clear that also stops the run loop, as the control panel's button does *)
clearAlsoStops(e) == stop([e EXCEPT !.grid = EmptyMap, !.generation = 0, !.aliased = {}])

(* clear that leaves the counter alone *)
clearKeepsGeneration(e) == [e EXCEPT !.grid = EmptyMap, !.aliased = {}]

clear(e) == [e EXCEPT !.grid = EmptyMap, !.generation = 0, !.aliased = {}]

(* addPattern that skips the cells that are already alive *)
RECURSIVE addPatternFromSkipsLive(_, _, _, _, _)
addPatternFromSkipsLive(e, pattern, i, offsetX, offsetY) ==
    IF i > Len(pattern) THEN e
    ELSE addPatternFromSkipsLive(
            IF MapHas(e.grid, Key(pattern[i][1] + offsetX, pattern[i][2] + offsetY)) THEN e
            ELSE setCell(e, pattern[i][1] + offsetX, pattern[i][2] + offsetY, TRUE),
            pattern, i + 1, offsetX, offsetY)

RECURSIVE addPatternFrom(_, _, _, _, _)
addPatternFrom(e, pattern, i, offsetX, offsetY) ==
    IF i > Len(pattern) THEN e
    ELSE addPatternFrom(setCell(e, pattern[i][1] + offsetX, pattern[i][2] + offsetY, TRUE),
                        pattern, i + 1, offsetX, offsetY)

addPattern(e, pattern, offsetX, offsetY) == addPatternFrom(e, pattern, 1, offsetX, offsetY)

----------------------------------------------------------------------------
(* State after `new GameEngine()`: field initialisers, then reset() *)

NoCell == << >>

PanelCallback == "panel"

(* useState(false), useState(100), useState(0) of ControlPanel; the        *)
(* useState defaults of GameGrid; the pointer not yet on the canvas        *)
InitUi ==
    /\ panel = [isRunning |-> FALSE, speed |-> DefaultSpeed, generation |-> 0]
    /\ view = [isPanning |-> FALSE, isDragging |-> FALSE,
               selectedCells |-> {}, lastToggledCell |-> NoCell]
    /\ drag = [at |-> NoCell, toggles |-> EmptyMap]

InitEngine ==
    reset([grid |-> EmptyMap, nextGrid |-> EmptyMap, generation |-> 0,
           isRunning |-> FALSE, intervalId |-> NoTimer, speed |-> DefaultSpeed,
           timers |-> {}, aliased |-> {}])

Init ==
    /\ grid = InitEngine.grid
    /\ nextGrid = InitEngine.nextGrid
    /\ generation = InitEngine.generation
    /\ isRunning = InitEngine.isRunning
    /\ intervalId = InitEngine.intervalId
    /\ speed = InitEngine.speed
    /\ timers = InitEngine.timers
    /\ aliased = InitEngine.aliased
    /\ snap = NoSnap
    /\ lastOp = "new"
    /\ invoked = NoCallback
    /\ registered = NoCallback
    /\ elapsed = 0
    /\ InitUi
    /\ since = EmptyMap

----------------------------------------------------------------------------
(* Calls on the engine.  Every action records itself in lastOp. *)

Call(op) ==
    /\ lastOp' = op
    /\ invoked' = NoCallback
    /\ UNCHANGED uiVars

(* since after a generation step: one more for a cell that was there, 0 for a new one *)
SinceStep == since' = [key \in DOMAIN grid' |-> IF key \in DOMAIN grid THEN since[key] + 1 ELSE 0]

(* since after a call that wrote the keys ks: 0 for an inserted cell, gone for a removed one *)
SinceWrite(ks) ==
    since' = [key \in DOMAIN grid' |-> IF key \in ks THEN 0 ELSE since[key]]

SetCell(W) ==
    \E key \in W, alive \in BOOLEAN :
        /\ Becomes(setCell(Eng, KeyX(key), KeyY(key), alive))
        /\ Call("setCell")
        /\ SinceWrite({key})
        /\ UNCHANGED <<snap, registered, elapsed>>

ToggleCell(W) ==
    \E key \in W :
        /\ Becomes(toggleCell(Eng, KeyX(key), KeyY(key)))
        /\ Call("toggleCell")
        /\ SinceWrite({key})
        /\ UNCHANGED <<snap, registered, elapsed>>

AddPattern(P, O) ==
    \E pattern \in P, offsetX \in O, offsetY \in O :
        /\ Becomes(addPattern(Eng, pattern, offsetX, offsetY))
        /\ Call("addPattern")
        /\ SinceWrite({Key(pattern[i][1] + offsetX, pattern[i][2] + offsetY) : i \in 1..Len(pattern)})
        /\ UNCHANGED <<snap, registered, elapsed>>

(* nextGeneration that ages a surviving Cell object in place, so that a     *)
(* snapshot holding the same object sees the new age                         *)
NextGenerationAgesInPlace ==
    /\ generation < MaxGen
    /\ Becomes(nextGeneration(Eng))
    /\ Call("nextGeneration")
    /\ SinceStep
    /\ snap' = IF snap = NoSnap THEN snap
               ELSE [snap EXCEPT ![1].grid =
                        [key \in DOMAIN @ |->
                            IF key \in aliased /\ Survives(grid, key)
                            THEN [@[key] EXCEPT !.age = grid[key].age + 1]
                            ELSE @[key]]]
    /\ UNCHANGED <<registered, elapsed>>

NextGeneration ==
    /\ generation < MaxGen
    /\ Becomes(nextGeneration(Eng))
    /\ Call("nextGeneration")
    /\ SinceStep
    /\ UNCHANGED <<snap, registered, elapsed>>

Clear ==
    /\ Becomes(clear(Eng))
    /\ Call("clear")
    /\ SinceWrite({})
    /\ UNCHANGED <<snap, registered, elapsed>>

Reset ==
    /\ Becomes(reset(Eng))
    /\ Call("reset")
    /\ SinceWrite({})
    /\ registered' = NoCallback
    /\ elapsed' = IF timers = {} THEN 0 ELSE elapsed
    /\ UNCHANGED snap

Start ==
    \E callback \in Callbacks \cup {NoCallback} :
        /\ Becomes(start(Eng, callback))
        /\ Call("start")
        /\ registered' = IF isRunning THEN registered ELSE callback
        /\ elapsed' = IF isRunning THEN elapsed ELSE 0
        /\ UNCHANGED <<snap, since>>

Stop ==
    /\ Becomes(stop(Eng))
    /\ Call("stop")
    /\ registered' = NoCallback
    /\ elapsed' = IF timers = {} THEN 0 ELSE elapsed
    /\ UNCHANGED <<snap, since>>

SetSpeed ==
    \E s \in Speeds :
        /\ Becomes(setSpeed(Eng, s))
        /\ Call("setSpeed")
        /\ elapsed' = IF isRunning THEN 0 ELSE elapsed
        /\ UNCHANGED <<snap, registered, since>>

----------------------------------------------------------------------------
(* ControlPanel.tsx: the handlers of the panel.  Each handler runs to its   *)
(* end and the component is rendered again before the next event.          *)

PanelAnchor == 10

PanelCall(op) ==
    /\ lastOp' = op
    /\ invoked' = NoCallback
    /\ UNCHANGED <<snap, view, drag>>

ToggleSimulation ==
    /\ IF panel.isRunning
       THEN /\ Becomes(stop(Eng))
            /\ panel' = [panel EXCEPT !.isRunning = FALSE]
            /\ registered' = NoCallback
            /\ elapsed' = IF timers = {} THEN 0 ELSE elapsed
       ELSE /\ Becomes(start(Eng, PanelCallback))
            /\ panel' = [panel EXCEPT !.isRunning = TRUE]
            /\ registered' = IF isRunning THEN registered ELSE PanelCallback
            /\ elapsed' = IF isRunning THEN elapsed ELSE 0
    /\ PanelCall("toggleSimulation")
    /\ UNCHANGED since

HandleSpeedChange ==
    \E newSpeed \in Speeds :
        /\ panel' = [panel EXCEPT !.speed = newSpeed]
        /\ Becomes(setSpeed(Eng, newSpeed))
        /\ elapsed' = IF isRunning THEN 0 ELSE elapsed
        /\ PanelCall("handleSpeedChange")
        /\ UNCHANGED <<registered, since>>

ClearGrid ==
    /\ Becomes(IF panel.isRunning THEN stop(clear(Eng)) ELSE clear(Eng))
    /\ panel' = [panel EXCEPT !.generation = 0, !.isRunning = FALSE]
    /\ registered' = IF panel.isRunning THEN NoCallback ELSE registered
    /\ elapsed' = IF panel.isRunning /\ timers = {} THEN 0 ELSE elapsed
    /\ PanelCall("clearGrid")
    /\ SinceWrite({})

PanelAddPattern ==
    \E pattern \in {BLINKER} :
        /\ Becomes(addPattern(Eng, pattern, PanelAnchor, PanelAnchor))
        /\ panel' = [panel EXCEPT !.generation = generation]
        /\ PanelCall("addPattern")
        /\ SinceWrite({Key(pattern[i][1] + PanelAnchor, pattern[i][2] + PanelAnchor)
                            : i \in 1..Len(pattern)})
        /\ UNCHANGED <<registered, elapsed>>

NextGen ==
    /\ generation < MaxGen
    /\ Becomes(nextGeneration(Eng))
    /\ panel' = [panel EXCEPT !.generation = generation + 1]
    /\ PanelCall("nextGeneration")
    /\ SinceStep
    /\ UNCHANGED <<registered, elapsed>>

----------------------------------------------------------------------------
(* GameGrid: the mouse handlers of the canvas.  The pointer is given by the *)
(* grid cell screenToGrid() maps it to; the pan offset and the zoom are not *)
(* modelled.  Each handler runs to its end and the component is rendered    *)
(* again before the next event, so a handler reads the state the previous   *)
(* one wrote.                                                               *)

ViewCall(op) ==
    /\ lastOp' = op
    /\ invoked' = NoCallback
    /\ UNCHANGED <<snap, panel, registered, elapsed>>

(* handleMouseDown, e.button === 0 without ctrlKey *)
MouseDownLeft ==
    \E cell \in SmallWindow :
        /\ view' = [view EXCEPT !.isDragging = TRUE,
                                !.selectedCells = {cell},
                                !.lastToggledCell = <<cell>>]
        /\ Becomes(toggleCell(Eng, KeyX(cell), KeyY(cell)))
        /\ SinceWrite({cell})
        /\ drag' = [at |-> <<cell>>, toggles |-> MapSet(EmptyMap, cell, 1)]
        /\ ViewCall("mouseDown")

(* handleMouseDown, middle or right button or Ctrl+left *)
MouseDownPan ==
    \E cell \in SmallWindow :
        /\ view' = [view EXCEPT !.isPanning = TRUE]
        /\ drag' = [drag EXCEPT !.at = <<cell>>]
        /\ ViewCall("mouseDownPan")
        /\ UNCHANGED <<grid, nextGrid, generation, isRunning, intervalId,
                       speed, timers, aliased, since>>

(* handleMouseMove that only looks at the cell toggled last *)
MouseMoveChecksLastOnly ==
    \E cell \in SmallWindow :
        /\ IF ~view.isPanning /\ view.isDragging /\ view.lastToggledCell # <<cell>>
           THEN /\ view' = [view EXCEPT !.selectedCells = @ \cup {cell},
                                        !.lastToggledCell = <<cell>>]
                /\ Becomes(toggleCell(Eng, KeyX(cell), KeyY(cell)))
                /\ SinceWrite({cell})
                /\ drag' = [at |-> <<cell>>,
                            toggles |-> IF cell \in DOMAIN drag.toggles
                                        THEN [drag.toggles EXCEPT ![cell] = @ + 1]
                                        ELSE MapSet(drag.toggles, cell, 1)]
           ELSE /\ UNCHANGED <<view, grid, nextGrid, generation, isRunning, intervalId,
                               speed, timers, aliased, since>>
                /\ drag' = [drag EXCEPT !.at = <<cell>>]
        /\ ViewCall("mouseMove")

MouseMove ==
    \E cell \in SmallWindow :
        /\ IF ~view.isPanning /\ view.isDragging /\ cell \notin view.selectedCells
              /\ view.lastToggledCell # <<cell>>
           THEN /\ view' = [view EXCEPT !.selectedCells = @ \cup {cell},
                                        !.lastToggledCell = <<cell>>]
                /\ Becomes(toggleCell(Eng, KeyX(cell), KeyY(cell)))
                /\ SinceWrite({cell})
                /\ drag' = [at |-> <<cell>>,
                            toggles |-> IF cell \in DOMAIN drag.toggles
                                        THEN [drag.toggles EXCEPT ![cell] = @ + 1]
                                        ELSE MapSet(drag.toggles, cell, 1)]
           ELSE /\ UNCHANGED <<view, grid, nextGrid, generation, isRunning, intervalId,
                               speed, timers, aliased, since>>
                /\ drag' = [drag EXCEPT !.at = <<cell>>]
        /\ ViewCall("mouseMove")

EndDrag ==
    view' = [isPanning |-> FALSE, isDragging |-> FALSE,
             selectedCells |-> {}, lastToggledCell |-> NoCell]

MouseUp ==
    /\ EndDrag
    /\ ViewCall("mouseUp")
    /\ UNCHANGED <<grid, nextGrid, generation, isRunning, intervalId,
                   speed, timers, aliased, since, drag>>

MouseLeave ==
    /\ EndDrag
    /\ drag' = [drag EXCEPT !.at = NoCell]
    /\ ViewCall("mouseLeave")
    /\ UNCHANGED <<grid, nextGrid, generation, isRunning, intervalId,
                   speed, timers, aliased, since>>

----------------------------------------------------------------------------
(* getState() and what a caller can do to the GameState it returns.        *)
(* new Map(this.grid) copies the entries, not the Cell objects: the keys   *)
(* in `aliased` are those whose Cell in the snapshot is still the object   *)
(* the engine's grid holds.  nextGrid may hold the same objects; a write   *)
(* through the snapshot is not followed there, because nextGrid is cleared *)
(* (nextGeneration, reset) before it is read.                              *)

getState(e) == [grid |-> e.grid, generation |-> e.generation]

GetState ==
    /\ snap' = <<getState(Eng)>>
    /\ aliased' = DOMAIN grid
    /\ Call("getState")
    /\ UNCHANGED <<grid, nextGrid, generation, isRunning, intervalId, speed, timers,
                   registered, elapsed, since>>

(* getCell that stores a dead cell under a key it does not find *)
GetCellStoresDefault ==
    /\ \E key \in SmallWindow :
        grid' = IF MapHas(grid, key) THEN grid
                ELSE MapSet(grid, key, [alive |-> FALSE, age |-> 0])
    /\ Call("getCell")
    /\ UNCHANGED <<nextGrid, generation, isRunning, intervalId, speed, timers,
                   snap, aliased, registered, elapsed, since>>

(* getCell(x, y): this.grid.get(key), nothing assigned *)
GetCell ==
    /\ \E key \in SmallWindow :
        getCell(Eng, KeyX(key), KeyY(key))
            = IF MapHas(grid, key) THEN <<grid[key]>> ELSE Undefined
    /\ Call("getCell")
    /\ UNCHANGED <<grid, nextGrid, generation, isRunning, intervalId, speed, timers,
                   snap, aliased, registered, elapsed, since>>

getGeneration(e) == e.generation

GetGeneration ==
    /\ getGeneration(Eng) = generation
    /\ Call("getGeneration")
    /\ UNCHANGED <<grid, nextGrid, generation, isRunning, intervalId, speed, timers,
                   snap, aliased, registered, elapsed, since>>

isSimulationRunning(e) == e.isRunning

IsSimulationRunning ==
    /\ isSimulationRunning(Eng) = isRunning
    /\ Call("isSimulationRunning")
    /\ UNCHANGED <<grid, nextGrid, generation, isRunning, intervalId, speed, timers,
                   snap, aliased, registered, elapsed, since>>

(* snapshot.grid.set(key, {alive: true, age: 0}) with an object of the caller's *)
SnapMapSet ==
    /\ snap # NoSnap
    /\ \E key \in SnapWindow :
        /\ snap' = [snap EXCEPT ![1].grid = MapSet(@, key, NewCell(0))]
        /\ aliased' = aliased \ {key}
    /\ Call("snapMapSet")
    /\ UNCHANGED <<grid, nextGrid, generation, isRunning, intervalId, speed, timers,
                   registered, elapsed, since>>

(* snapshot.grid.delete(key) *)
SnapMapDelete ==
    /\ snap # NoSnap
    /\ \E key \in DOMAIN snap[1].grid :
        /\ snap' = [snap EXCEPT ![1].grid = MapDelete(@, key)]
        /\ aliased' = aliased \ {key}
    /\ Call("snapMapDelete")
    /\ UNCHANGED <<grid, nextGrid, generation, isRunning, intervalId, speed, timers,
                   registered, elapsed, since>>

(* snapshot.grid.get(key).alive = false, or .age = MaxGen: a write to the  *)
(* Cell object, seen by every map that holds that object                   *)
SnapCellWrite ==
    /\ snap # NoSnap
    /\ \E key \in DOMAIN snap[1].grid :
        \E cell \in {[snap[1].grid[key] EXCEPT !.alive = FALSE],
                    [snap[1].grid[key] EXCEPT !.age = MaxGen]} :
            /\ snap' = [snap EXCEPT ![1].grid[key] = cell]
            /\ grid' = IF key \in aliased THEN [grid EXCEPT ![key] = cell] ELSE grid
    /\ Call("snapCellWrite")
    /\ UNCHANGED <<nextGrid, generation, isRunning, intervalId, speed, timers,
                   aliased, registered, elapsed, since>>

----------------------------------------------------------------------------
(* The event loop *)

(* A due interval runs its closure: nextGeneration(), then the callback    *)
(* start() was given, and is scheduled again one period later.             *)
Rearm(ts, t) == (ts \ {t}) \cup {[t EXCEPT !.due = t.period]}

TimerFire ==
    \E t \in timers :
        /\ t.due = 0
        /\ generation < MaxGen
        /\ Becomes([nextGeneration(Eng) EXCEPT !.timers = Rearm(@, t)])
        /\ lastOp' = "tick"
        /\ invoked' = t.cb
        /\ panel' = IF t.cb = PanelCallback
                    THEN [panel EXCEPT !.generation = generation + 1]
                    ELSE panel
        /\ UNCHANGED <<view, drag>>
        /\ elapsed' = 0
        /\ SinceStep
        /\ UNCHANGED <<snap, registered>>

(* TimeStep ms pass while no interval is due. *)
Advance ==
    /\ timers # {}
    /\ \A t \in timers : t.due > 0
    /\ timers' = {[t EXCEPT !.due = @ - TimeStep] : t \in timers}
    /\ elapsed' = elapsed + TimeStep
    /\ Call("advance")
    /\ UNCHANGED <<grid, nextGrid, generation, isRunning, intervalId, speed,
                   snap, aliased, registered, since>>

----------------------------------------------------------------------------
(* Specifications *)

(* All calls that touch the grid, no timer. *)
GridNext ==
    \/ SetCell(SmallWindow)
    \/ ToggleCell(SmallWindow)
    \/ AddPattern({BLINKER}, {0})
    \/ NextGeneration
    \/ Clear
    \/ Reset

SpecGrid == Init /\ [][GridNext]_vars

(* The rule alone: any set of cells of the window, freshly set, then steps. *)
InitRule ==
    \E live \in SUBSET Window :
        /\ grid = [key \in live |-> NewCell(0)]
        /\ since = [key \in live |-> 0]
        /\ lastOp = IF live = {} THEN "new" ELSE "setCell"
        /\ nextGrid = EmptyMap
        /\ generation = 0
        /\ isRunning = FALSE
        /\ intervalId = NoTimer
        /\ speed = DefaultSpeed
        /\ timers = {}
        /\ aliased = {}
        /\ snap = NoSnap
        /\ invoked = NoCallback
        /\ registered = NoCallback
        /\ elapsed = 0
        /\ InitUi

SpecRule == InitRule /\ [][NextGeneration]_vars

(* A pattern stamped on a new engine, its state read once, then steps. *)
InitPattern ==
    \E pattern \in {GLIDER, BLINKER, PULSAR}, offsetX \in PatternAnchors, offsetY \in PatternAnchors :
        LET e == addPattern(InitEngine, pattern, offsetX, offsetY) IN
        /\ grid = e.grid
        /\ since = [key \in DOMAIN e.grid |-> 0]
        /\ lastOp = "getState"
        /\ nextGrid = e.nextGrid
        /\ generation = e.generation
        /\ isRunning = e.isRunning
        /\ intervalId = e.intervalId
        /\ speed = e.speed
        /\ timers = e.timers
        /\ aliased = DOMAIN e.grid
        /\ snap = <<getState(e)>>
        /\ invoked = NoCallback
        /\ registered = NoCallback
        /\ elapsed = 0
        /\ InitUi

(* nextGeneration(), up to PatternGens steps *)
PatternStep ==
    /\ generation < PatternGens
    /\ Becomes(nextGeneration(Eng))
    /\ Call("nextGeneration")
    /\ SinceStep
    /\ UNCHANGED <<snap, registered, elapsed>>

SpecPattern == InitPattern /\ [][PatternStep]_vars

(* The gun stamped on a new engine, its state read once, then steps. *)
InitGun ==
    \E offsetX \in PatternAnchors, offsetY \in PatternAnchors :
        LET e == addPattern(InitEngine, GOSPER_GLIDER_GUN, offsetX, offsetY) IN
        /\ grid = e.grid
        /\ since = [key \in DOMAIN e.grid |-> 0]
        /\ lastOp = "getState"
        /\ nextGrid = e.nextGrid
        /\ generation = e.generation
        /\ isRunning = e.isRunning
        /\ intervalId = e.intervalId
        /\ speed = e.speed
        /\ timers = e.timers
        /\ aliased = DOMAIN e.grid
        /\ snap = <<getState(e)>>
        /\ invoked = NoCallback
        /\ registered = NoCallback
        /\ elapsed = 0
        /\ InitUi

(* nextGeneration(), up to GunGens steps *)
GunStep ==
    /\ generation < GunGens
    /\ Becomes(nextGeneration(Eng))
    /\ Call("nextGeneration")
    /\ SinceStep
    /\ UNCHANGED <<snap, registered, elapsed>>

SpecGun == InitGun /\ [][GunStep]_vars

(* The grid, and a caller that keeps and writes to what getState() returned. *)
SnapNext ==
    \/ SetCell(SnapWindow)
    \/ NextGeneration
    \/ Clear
    \/ GetState
    \/ SnapMapSet
    \/ SnapMapDelete
    \/ SnapCellWrite

SpecSnap == Init /\ [][SnapNext]_vars

(* The run loop and the calls that empty the board, on a two-cell board. *)
ControlNext ==
    \/ SetCell(SnapWindow)
    \/ NextGeneration
    \/ Clear
    \/ Reset
    \/ Start
    \/ Stop
    \/ SetSpeed
    \/ TimerFire
    \/ Advance

SpecControl == Init /\ [][ControlNext]_vars

(* Every operation of the engine and the event loop that runs its timer. *)
(* The six calls that write the grid, and a caller that keeps a snapshot. *)
KeepNext ==
    \/ SetCell(SnapWindow)
    \/ ToggleCell(SnapWindow)
    \/ AddPattern({BLINKER}, {0})
    \/ NextGeneration
    \/ Clear
    \/ Reset
    \/ GetState

SpecKeep == Init /\ [][KeepNext]_vars

(* The run loop under an event loop that lets time pass and runs an        *)
(* interval callback that is due.                                          *)
LiveNext ==
    \/ SetCell(SnapWindow)
    \/ Clear
    \/ Reset
    \/ Start
    \/ Stop
    \/ SetSpeed
    \/ TimerFire
    \/ Advance

SpecLive ==
    /\ Init
    /\ [][LiveNext]_vars
    /\ WF_vars(TimerFire)
    /\ WF_vars(Advance)

(* The engine driven through the control panel only. *)
PanelNext ==
    \/ ToggleSimulation
    \/ HandleSpeedChange
    \/ ClearGrid
    \/ PanelAddPattern
    \/ NextGen
    \/ TimerFire
    \/ Advance

SpecPanel == Init /\ [][PanelNext]_vars

(* The canvas under the mouse. *)
DragNext ==
    \/ MouseDownLeft
    \/ MouseDownPan
    \/ MouseMove
    \/ MouseUp
    \/ MouseLeave

SpecDrag == Init /\ [][DragNext]_vars

(* The run loop on a board of blinkers, and the four getters. *)
ReadNext ==
    \/ AddPattern({BLINKER}, {0})
    \/ NextGeneration
    \/ Clear
    \/ Start
    \/ Stop
    \/ SetSpeed
    \/ TimerFire
    \/ Advance
    \/ GetCell
    \/ GetState
    \/ GetGeneration
    \/ IsSimulationRunning

SpecRead == Init /\ [][ReadNext]_vars

Next ==
    \/ SetCell(SmallWindow)
    \/ ToggleCell(SmallWindow)
    \/ NextGeneration
    \/ Clear
    \/ Reset
    \/ Start
    \/ Stop
    \/ SetSpeed
    \/ TimerFire
    \/ Advance

Spec == Init /\ [][Next]_vars

----------------------------------------------------------------------------
(* Properties *)

StepOps == {"nextGeneration", "tick"}

(* Every coordinate a cell can reach within the bounds, and one ring more. *)
Plane == ((0 - MaxGen - 2)..(MaxX + MaxGen + 2)) \X ((0 - MaxGen - 2)..(MaxY + MaxGen + 2))

Around(c) == {<<c[1] + dx, c[2] + dy>> : dx \in {-1, 0, 1}, dy \in {-1, 0, 1}} \ {c}

LiveAround(live, c) == Cardinality(Around(c) \cap live)

ConwayNext(live) ==
    {c \in Plane : \/ c \in live /\ LiveAround(live, c) \in {2, 3}
                   \/ c \notin live /\ LiveAround(live, c) = 3}

(* C1: after one nextGeneration() the live cells are exactly the cells that  *)
(* were live with 2 or 3 live neighbours or dead with exactly 3, every count *)
(* taken on the grid as it was before the call.                              *)
C1_NextGenerationIsConway ==
    [][lastOp' \in StepOps => DOMAIN grid' = ConwayNext(DOMAIN grid)]_vars

(* The full 3x2 rectangle after one step: the two middle cells died of      *)
(* overpopulation, the corners survived, two cells were born outside.       *)
C1_Witness ==
    /\ lastOp = "nextGeneration"
    /\ generation = 1
    /\ {key \in DOMAIN grid : grid[key].age = 1} = {<<0, 0>>, <<2, 0>>, <<0, 1>>, <<2, 1>>}
    /\ {key \in DOMAIN grid : grid[key].age = 0} = {<<1, -1>>, <<1, 2>>}

(* C2: across nextGeneration() a cell live before and after has its age     *)
(* increased by 1 and a cell that was dead has age 0; so a cell's age is the *)
(* number of steps it survived since it was inserted or born.                *)
C2_AgeCountsSurvivedSteps ==
    /\ [](\A key \in DOMAIN grid : grid[key].age = since[key])
    /\ [][lastOp' \in StepOps =>
            \A key \in DOMAIN grid' :
                grid'[key].age = IF key \in DOMAIN grid THEN grid[key].age + 1 ELSE 0]_vars

C2_Witness ==
    /\ lastOp = "nextGeneration"
    /\ \E key \in DOMAIN grid : grid[key].age = MaxGen /\ since[key] = MaxGen
    /\ \E key \in DOMAIN grid : grid[key].age = 0

(* C3: generation is 0 on a new engine, grows by exactly 1 on every         *)
(* nextGeneration(), manual or timer-driven, is set to 0 by clear() and      *)
(* reset(), and is changed by no other operation.                            *)
C3_GenerationCounter ==
    /\ [](lastOp = "new" => generation = 0)
    /\ [][/\ lastOp' \in StepOps => generation' = generation + 1
          /\ lastOp' \in {"clear", "reset"} => generation' = 0
          /\ lastOp' \notin StepOps \cup {"clear", "reset"} => generation' = generation]_vars

C3_Witness ==
    /\ lastOp = "tick"
    /\ generation = MaxGen
    /\ MaxGen >= 2

(* C4: every entry stored in the engine's grid has alive = TRUE; a dead     *)
(* cell is never stored.                                                     *)
C4_OnlyLiveCellsStored == \A key \in DOMAIN grid : grid[key].alive = TRUE

(* A cell that the last step left alive has been removed by setCell. *)
C4_Witness ==
    /\ lastOp = "setCell"
    /\ generation > 0
    /\ grid # EmptyMap
    /\ \E key \in DOMAIN nextGrid : key \notin DOMAIN grid

CallerOps == {"snapMapSet", "snapMapDelete", "snapCellWrite"}

(* C5: mutating the grid returned by getState() (adding or deleting         *)
(* entries, writing the alive or age field of a cell record obtained from   *)
(* it) never changes what the engine holds.                                 *)
C5_SnapshotMutationIsolated ==
    [][lastOp' \in CallerOps => grid' = grid /\ generation' = generation]_vars

GridOps == {"setCell", "toggleCell", "addPattern", "nextGeneration", "clear", "reset"}

(* C6: once stop() or reset() has returned, nothing is scheduled and no     *)
(* timer-driven nextGeneration() runs until start() is called again, even   *)
(* if a tick was due; grid and generation change only through explicit     *)
(* calls meanwhile.                                                         *)
C6_NoTimerStepAfterStop ==
    /\ [](~isRunning => timers = {})
    /\ [][/\ lastOp' \in {"stop", "reset"} => ~isRunning' /\ timers' = {}
          /\ (~isRunning /\ lastOp' # "start") => (~isRunning' /\ lastOp' # "tick")
          /\ (~isRunning /\ <<grid, generation>>' # <<grid, generation>>)
                => lastOp' \in GridOps]_vars

(* stop() has just cancelled an interval whose tick was due at this instant *)
C6_Witness ==
    /\ lastOp = "stop"
    /\ elapsed = speed
    /\ generation < MaxGen
    /\ grid # EmptyMap
    /\ timers = {}

Schedule(ts) == {[id |-> t.id, period |-> t.period, due |-> t.due] : t \in ts}

(* C7: setSpeed(p) while running is stop() followed by start() with period  *)
(* p: no step runs in the call, the engine is running afterwards, the first *)
(* step comes one period p after the call and steps are then p apart.       *)
C7_SetSpeedRestartsInterval ==
    [][/\ (lastOp' = "setSpeed" /\ isRunning) =>
            LET restarted == start(stop([Eng EXCEPT !.speed = speed']), NoCallback) IN
            /\ grid' = grid /\ nextGrid' = nextGrid /\ generation' = generation
            /\ isRunning'
            /\ intervalId' = restarted.intervalId
            /\ Schedule(timers') = Schedule(restarted.timers)
            /\ \A t \in timers' : t.period = speed' /\ t.due = speed'
       /\ lastOp' = "tick" => elapsed = speed]_vars

(* a step of the interval that setSpeed scheduled with a changed period *)
C7_Witness ==
    /\ lastOp = "tick"
    /\ isRunning
    /\ speed # DefaultSpeed
    /\ registered # NoCallback
    /\ invoked = NoCallback

(* C8: start() while running and stop() while stopped change nothing: grid, *)
(* generation, run flag, period, timer and its callback stay as they were.  *)
C8_RedundantStartStopAreNoOps ==
    [][/\ (lastOp' = "start" /\ isRunning) => UNCHANGED <<engineVars, registered>>
       /\ (lastOp' = "stop" /\ ~isRunning) => UNCHANGED <<engineVars, registered>>]_vars

(* start() was called on an engine whose interval had been running a while *)
C8_Witness ==
    /\ lastOp = "start"
    /\ isRunning
    /\ elapsed > 0
    /\ registered = "cb1"

(* C9: after start(cb), every timer-driven step before the next stop() or  *)
(* reset() is followed by one invocation of cb, also after setSpeed().      *)
C9_CallbackAfterEveryTimerStep ==
    (lastOp = "tick" /\ registered # NoCallback) => invoked = registered

(* C10: at most one interval is scheduled, and isSimulationRunning() is     *)
(* true exactly when the engine holds its handle.                           *)
C10_SingleTimer ==
    /\ Cardinality(timers) <= 1
    /\ isRunning <=> intervalId # NoTimer
    /\ \A t \in timers : t.id = intervalId
    /\ intervalId # NoTimer => \E t \in timers : t.id = intervalId

(* running again after setSpeed() re-scheduled the interval *)
C10_Witness ==
    /\ lastOp = "setSpeed"
    /\ isRunning
    /\ registered # NoCallback
    /\ Cardinality(timers) = 1
    /\ \A t \in timers : t.cb = NoCallback

(* C11: clear() leaves the grid empty and generation 0 whatever the state   *)
(* was, and leaves run flag, period and scheduled timer alone: a running    *)
(* engine keeps running and its next timer step is generation 1.            *)
C11_ClearKeepsRunLoop ==
    [][/\ lastOp' = "clear" =>
            /\ grid' = EmptyMap /\ generation' = 0
            /\ UNCHANGED <<isRunning, intervalId, speed, timers>>
       /\ (lastOp = "clear" /\ lastOp' = "tick") =>
            (isRunning' /\ generation' = 1 /\ grid' = EmptyMap)]_vars

(* clear() was just called on a running engine whose next tick is due *)
C11_Witness ==
    /\ lastOp = "clear"
    /\ isRunning
    /\ timers # {}
    /\ elapsed = speed
    /\ registered # NoCallback

(* C12: from every reachable state reset() ends where clear() followed by   *)
(* stop() ends: grid empty, generation 0, not running, nothing scheduled,   *)
(* period unchanged.                                                        *)
C12_ResetIsClearThenStop ==
    [][lastOp' = "reset" =>
        LET cs == stop(clear(Eng)) IN
        /\ grid' = cs.grid /\ generation' = cs.generation
        /\ isRunning' = cs.isRunning /\ intervalId' = cs.intervalId
        /\ timers' = cs.timers /\ speed' = cs.speed
        /\ grid' = EmptyMap /\ generation' = 0
        /\ ~isRunning' /\ intervalId' = NoTimer /\ timers' = {}
        /\ speed' = speed]_vars

(* reset() has just cancelled an interval with a changed period that was due *)
C12_Witness ==
    /\ lastOp = "reset"
    /\ elapsed = speed
    /\ speed # DefaultSpeed
    /\ timers = {}
    /\ ~isRunning

(* C13: setSpeed(p) on a stopped engine only records p: still stopped,      *)
(* nothing scheduled, grid and generation unchanged, and the next start()   *)
(* schedules steps with period p.                                           *)
C13_SetSpeedWhileStopped ==
    ~isRunning =>
        \A p \in Speeds :
            LET e == setSpeed(Eng, p) IN
            /\ e.speed = p
            /\ ~e.isRunning /\ e.intervalId = NoTimer /\ e.timers = {}
            /\ e.grid = grid /\ e.generation = generation
            /\ \A cb \in Callbacks \cup {NoCallback} :
                  LET st == start(e, cb) IN
                  /\ st.isRunning
                  /\ Cardinality(st.timers) = 1
                  /\ \A t \in st.timers : t.period = p /\ t.due = p /\ t.id = st.intervalId

(* a step of the interval that start() scheduled with the period recorded   *)
(* while the engine was stopped                                             *)
C13_Witness ==
    /\ lastOp = "tick"
    /\ speed # DefaultSpeed
    /\ invoked # NoCallback
    /\ \A t \in timers : t.period = speed

(* the fields of the engine other than the grid *)
Rest(e) == <<e.generation, e.isRunning, e.intervalId, e.speed, e.timers>>

(* g2 is g outside the keys ks *)
SameExcept(g, g2, ks) ==
    /\ DOMAIN g2 \ ks = DOMAIN g \ ks
    /\ \A k \in DOMAIN g \ ks : g2[k] = g[k]

(* C14: after setCell(x,y,true) getCell(x,y) is alive with age 0, whatever  *)
(* age it had; after setCell(x,y,false) it is absent, a no-op if it was     *)
(* absent; every other cell, generation, run flag, period and timer stay.   *)
C14_SetCellThenGetCell ==
    \A key \in Plane :
        LET x == KeyX(key)
            y == KeyY(key)
            on == setCell(Eng, x, y, TRUE)
            off == setCell(Eng, x, y, FALSE) IN
        /\ getCell(on, x, y) = <<[alive |-> TRUE, age |-> 0]>>
        /\ getCell(off, x, y) = Undefined
        /\ key \notin DOMAIN grid => off.grid = grid
        /\ SameExcept(grid, on.grid, {key}) /\ SameExcept(grid, off.grid, {key})
        /\ Rest(on) = Rest(Eng) /\ Rest(off) = Rest(Eng)

(* setCell has put a cell that survived the last step back to age 0, next   *)
(* to a cell that kept its age                                              *)
C14_Witness ==
    /\ lastOp = "setCell"
    /\ \E key \in DOMAIN grid \cap DOMAIN nextGrid :
          grid[key].age = 0 /\ nextGrid[key].age > 0
    /\ \E key \in DOMAIN grid : grid[key].age > 0

(* C15: toggleCell removes a present cell and inserts an absent one with    *)
(* age 0; two toggles in a row restore the alive/dead state of the cell and *)
(* touch the alive/dead state of no other cell.                             *)
C15_ToggleTwice ==
    \A key \in Plane :
        LET x == KeyX(key)
            y == KeyY(key)
            once == toggleCell(Eng, x, y)
            twice == toggleCell(once, x, y) IN
        /\ key \in DOMAIN grid => getCell(once, x, y) = Undefined
        /\ key \notin DOMAIN grid => getCell(once, x, y) = <<[alive |-> TRUE, age |-> 0]>>
        /\ DOMAIN twice.grid = DOMAIN grid
        /\ DOMAIN once.grid \ {key} = DOMAIN grid \ {key}
        /\ SameExcept(grid, once.grid, {key}) /\ SameExcept(grid, twice.grid, {key})

(* a cell that survived the last step was toggled off and on again *)
C15_Witness ==
    /\ lastOp = "toggleCell"
    /\ \E key \in DOMAIN grid \cap DOMAIN nextGrid :
          grid[key].age = 0 /\ nextGrid[key].age > 0

Anchors == {-1, 0, 5}

StampKeys(pattern, ox, oy) ==
    {<<pattern[i][1] + ox, pattern[i][2] + oy>> : i \in 1..Len(pattern)}

(* C16: addPattern(pattern, ox, oy) makes exactly the cells (dx+ox, dy+oy)  *)
(* alive with age 0 whatever they were, changes no other cell and not the   *)
(* generation; BLINKER at (5,5) on an empty grid is {(5,5),(6,5),(7,5)};    *)
(* stamping twice is stamping once.                                         *)
C16_AddPatternStamps ==
    /\ addPattern(InitEngine, BLINKER, 5, 5).grid
          = [key \in {<<5, 5>>, <<6, 5>>, <<7, 5>>} |-> [alive |-> TRUE, age |-> 0]]
    /\ \A pattern \in {BLINKER, GLIDER}, ox \in Anchors, oy \in Anchors :
          LET e == addPattern(Eng, pattern, ox, oy)
              ks == StampKeys(pattern, ox, oy) IN
          /\ \A k \in ks : getCell(e, k[1], k[2]) = <<[alive |-> TRUE, age |-> 0]>>
          /\ SameExcept(grid, e.grid, ks)
          /\ Rest(e) = Rest(Eng)
          /\ addPattern(e, pattern, ox, oy) = e

(* the blinker was stamped over cells that had aged, beside one that kept   *)
(* its age                                                                  *)
C16_Witness ==
    /\ lastOp = "addPattern"
    /\ \A k \in StampKeys(BLINKER, 0, 0) : k \in DOMAIN grid /\ grid[k].age = 0
    /\ \E k \in StampKeys(BLINKER, 0, 0) \cap DOMAIN nextGrid : nextGrid[k].age > 0
    /\ \E k \in DOMAIN grid : grid[k].age > 0

(* C17: nextGeneration() on an empty grid gives an empty grid and adds 1 to *)
(* generation, however the grid became empty; no cell of an earlier         *)
(* generation comes back on the step after clear().                         *)
C17_EmptyStaysEmpty ==
    /\ [](grid = EmptyMap =>
            LET e == nextGeneration(Eng) IN
            e.grid = EmptyMap /\ e.generation = generation + 1)
    /\ [][(lastOp' \in StepOps /\ grid = EmptyMap) =>
            (grid' = EmptyMap /\ generation' = generation + 1)]_vars

(* clear() has emptied the grid while nextGrid still holds the cells of the *)
(* last step                                                                *)
C17_Witness ==
    /\ lastOp = "clear"
    /\ grid = EmptyMap
    /\ nextGrid # EmptyMap
    /\ generation = 0

(* the live-cell set the snapshot taken after stamping holds *)
Stamped == DOMAIN snap[1].grid

StampedIs(pattern) ==
    \E ox \in PatternAnchors, oy \in PatternAnchors : Stamped = StampKeys(pattern, ox, oy)

Translate(ks, dx, dy) == {<<k[1] + dx, k[2] + dy>> : k \in ks}

(* C18: the GLIDER stamped on an empty grid at any anchor is, after 4n      *)
(* calls of nextGeneration(), the stamped set moved by (+n,+n).             *)
C18_GliderDrift ==
    StampedIs(GLIDER) =>
        \A n \in 0..(PatternGens \div 4) :
            generation = 4 * n => DOMAIN grid = Translate(Stamped, n, n)

C18_Witness ==
    /\ StampedIs(GLIDER)
    /\ lastOp = "nextGeneration"
    /\ generation = 8
    /\ DOMAIN grid = Translate(Stamped, 2, 2)

(* C19: the BLINKER stamped on an empty grid is back at its stamped set     *)
(* after 2 calls of nextGeneration() and is another set after 1 call.       *)
C19_BlinkerPeriodTwo ==
    StampedIs(BLINKER) =>
        /\ generation = 2 => DOMAIN grid = Stamped
        /\ generation = 1 => DOMAIN grid # Stamped

C19_Witness ==
    /\ StampedIs(BLINKER)
    /\ lastOp = "nextGeneration"
    /\ generation = 2
    /\ DOMAIN grid = Stamped

(* C20: the PULSAR stamped on an empty grid is back at its stamped set      *)
(* after 3 calls of nextGeneration() and is another set after 1 and after   *)
(* 2 calls.                                                                 *)
C20_PulsarPeriodThree ==
    StampedIs(PULSAR) =>
        /\ generation = 3 => DOMAIN grid = Stamped
        /\ generation \in {1, 2} => DOMAIN grid # Stamped

C20_Witness ==
    /\ StampedIs(PULSAR)
    /\ lastOp = "nextGeneration"
    /\ generation = 3
    /\ DOMAIN grid = Stamped

(* the engine after n calls of nextGeneration() *)
RECURSIVE After(_, _)
After(e, n) == IF n = 0 THEN e ELSE After(nextGeneration(e), n - 1)

(* the engine the snapshot was taken of *)
StampedEngine == [InitEngine EXCEPT !.grid = snap[1].grid]

(* C21: the GOSPER_GLIDER_GUN stamped on an empty grid has, at generations  *)
(* 30 and 60, all its 36 stamped cells alive again and more live cells than *)
(* 30 generations earlier.                                                  *)
C21_GunGrows ==
    StampedIs(GOSPER_GLIDER_GUN) =>
        /\ Cardinality(Stamped) = 36
        /\ \A g \in {30, 60} :
              generation = g =>
                /\ Stamped \subseteq DOMAIN grid
                /\ \A key \in Stamped : grid[key].alive
                /\ Cardinality(DOMAIN grid)
                      > Cardinality(DOMAIN After(StampedEngine, g - 30).grid)

C21_Witness ==
    /\ StampedIs(GOSPER_GLIDER_GUN)
    /\ lastOp = "nextGeneration"
    /\ generation = 60
    /\ Stamped \subseteq DOMAIN grid
    /\ Cardinality(DOMAIN grid) > Cardinality(Stamped) + 1

ReadOps == {"getCell", "getState", "getGeneration", "isSimulationRunning"}

(* C22: getCell, getState, getGeneration and isSimulationRunning leave the  *)
(* grid (cells and ages), generation, run flag, period and timer as they    *)
(* were, and getCell(x,y) returns a cell exactly when (x,y) is in the grid: *)
(* the live cell stored there.                                              *)
C22_GettersReadOnly ==
    /\ [](\A key \in Plane :
            LET got == getCell(Eng, KeyX(key), KeyY(key)) IN
            /\ got # Undefined <=> key \in DOMAIN grid
            /\ key \in DOMAIN grid => got = <<grid[key]>> /\ grid[key].alive)
    /\ [][lastOp' \in ReadOps =>
            UNCHANGED <<grid, nextGrid, generation, isRunning, intervalId, speed, timers>>]_vars

(* a getter was called on a running engine with a tick due and an aged cell *)
C22_Witness ==
    /\ lastOp \in ReadOps
    /\ isRunning /\ timers # {} /\ \A t \in timers : t.due = 0
    /\ generation > 0
    /\ \E key \in DOMAIN grid : grid[key].age > 0

MinOf(S) == CHOOSE m \in S : \A n \in S : m <= n

MaxOf(S) == CHOOSE m \in S : \A n \in S : m >= n

Xs(live) == {c[1] : c \in live}

Ys(live) == {c[2] : c \in live}

(* C23: a cell live after nextGeneration() was live before it or is one of  *)
(* the 8 neighbours of a cell that was; no cell outside that candidate set  *)
(* has 3 live neighbours, and every birth of the rule is in the new grid;   *)
(* the bounding box of the live cells grows by at most 1 on each side.      *)
C23_CandidatesSuffice ==
    [][lastOp' \in StepOps =>
        LET live == DOMAIN grid
            after == DOMAIN grid'
            candidates == live \cup UNION {Around(c) : c \in live} IN
        /\ after \subseteq candidates
        /\ \A c \in Plane \ candidates : LiveAround(live, c) # 3
        /\ \A c \in Plane \ live : LiveAround(live, c) = 3 => c \in after
        /\ (live # {} /\ after # {}) =>
              /\ MinOf(Xs(after)) >= MinOf(Xs(live)) - 1
              /\ MaxOf(Xs(after)) <= MaxOf(Xs(live)) + 1
              /\ MinOf(Ys(after)) >= MinOf(Ys(live)) - 1
              /\ MaxOf(Ys(after)) <= MaxOf(Ys(live)) + 1]_vars

(* the horizontal triple became the vertical one: a birth in the row above  *)
(* and one in the row below the cells that were live                        *)
C23_Witness ==
    /\ lastOp = "nextGeneration"
    /\ generation = 1
    /\ DOMAIN grid = {<<1, 0 - 1>>, <<1, 0>>, <<1, 1>>}
    /\ grid[<<1, 0 - 1>>].age = 0 /\ grid[<<1, 1>>].age = 0

(* C24: no call of setCell, toggleCell, addPattern, nextGeneration, clear   *)
(* or reset changes the entries, the ages or the generation number of a     *)
(* snapshot that getState() returned earlier.                               *)
C24_SnapshotStable ==
    [][(snap # NoSnap /\ lastOp' \in GridOps) => snap' = snap]_vars

(* the engine has stepped and aged a cell whose earlier age and generation  *)
(* the snapshot still holds                                                 *)
C24_Witness ==
    /\ snap # NoSnap
    /\ lastOp = "nextGeneration"
    /\ generation = snap[1].generation + 1
    /\ \E key \in DOMAIN snap[1].grid \cap DOMAIN grid :
          grid[key].age = snap[1].grid[key].age + 1
    /\ \E key \in DOMAIN snap[1].grid : key \notin DOMAIN grid

(* start() or setSpeed() has just returned on a running engine *)
Scheduled == isRunning /\ generation < MaxGen /\ lastOp \in {"start", "setSpeed"}

(* a timer step has run, or the engine was stopped *)
SteppedOrStopped == lastOp = "tick" \/ ~isRunning

(* C25 as stated: while the engine runs and is not stopped, a timer-driven  *)
(* nextGeneration() eventually executes, however often setSpeed() is called. *)
C25_TickEventually == Scheduled ~> SteppedOrStopped

(* C25, amended: while the engine runs and is not stopped, a timer-driven   *)
(* nextGeneration() eventually executes unless setSpeed() is called again   *)
(* and again for ever; every setSpeed() call puts the step off by a full    *)
(* new period.                                                              *)
C25_TickUnlessSetSpeedForever ==
    \/ []<>(lastOp = "setSpeed")
    \/ (Scheduled ~> SteppedOrStopped)

(* a timer step ran one full period after setSpeed() had changed the period *)
C25_Witness ==
    /\ lastOp = "tick"
    /\ isRunning
    /\ speed = TimeStep
    /\ generation >= 1
    /\ \A t \in timers : t.period = TimeStep /\ t.due = TimeStep

PanelOps == {"toggleSimulation", "handleSpeedChange", "clearGrid", "addPattern",
             "nextGeneration"}

(* C26: after any sequence of ControlPanel actions the panel's isRunning    *)
(* flag equals the engine's isSimulationRunning(); clearGrid while running  *)
(* leaves both false, the grid empty and generation 0.                      *)
C26_PanelFlagMatchesEngine ==
    /\ [](panel.isRunning = isSimulationRunning(Eng))
    /\ [][lastOp' = "clearGrid" =>
            /\ ~panel.isRunning' /\ ~isRunning' /\ timers' = {}
            /\ grid' = EmptyMap /\ generation' = 0]_vars

(* clearGrid was pressed after the engine had stepped and the slider had    *)
(* changed the period                                                       *)
C26_Witness ==
    /\ lastOp = "clearGrid"
    /\ ~panel.isRunning /\ ~isRunning
    /\ nextGrid # EmptyMap
    /\ panel.speed # DefaultSpeed
    /\ elapsed > 0

====
